---- MODULE Spec2Model ----
(***************************************************************************)
(* WiFiUDP of the CC3200 WiFi library (WiFiUdp.cpp): one UDP socket object *)
(* with a transmit buffer, a receive buffer and a socket handle, over the  *)
(* SimpleLink transport (sl_Socket, sl_Bind, sl_Close, sl_SendTo,          *)
(* sl_Select, sl_RecvFrom) and the WiFiClass slot table (_server_port).    *)
(*                                                                         *)
(* Buffers are indexed from 0 as in the source.  Every public method is    *)
(* one action; the answers of the transport are inputs drawn with \E.      *)
(***************************************************************************)
EXTENDS Integers, Sequences, FiniteSets, TLC

(* ------------------------------ bounds --------------------------------- *)

\* capacity of rx_buf (scaled down)
UDP_RX_PACKET_MAX_SIZE == 2

\* capacity of tx_buf (scaled down)
UDP_TX_PACKET_MAX_SIZE == 2

\* number of entries of WiFiClass::_server_port (scaled down)
MAX_SOCK_NUM == 2

\* the transport can have as many sockets open as the table has slots
MaxHandle == MAX_SOCK_NUM

\* largest len passed to read(buffer, len): the whole buffer
MaxLen == UDP_RX_PACKET_MAX_SIZE

\* largest size passed to write(buffer, size): one more than fits
MaxWrite == UDP_TX_PACKET_MAX_SIZE + 1

(* ----------------------------- constants ------------------------------- *)

\* the "no socket" sentinel of the Arduino WiFi API
NO_SOCKET_AVAIL == 255

Byte == {0, 1}

Slots == 0 .. (MAX_SOCK_NUM - 1)

Handles == 0 .. (MaxHandle - 1)

\* the local port passed to begin
Ports == {8000}

\* (address, port) pairs of remote peers, in host order: 10.0.0.1, 10.0.0.2
Peers == {<<167772161, 9000>>, <<167772162, 9001>>}

NoPeer == <<0, 0>>

\* values a member the constructor does not set can start with: _socketHandle
\* is either the sentinel or not (0 stands for every other value: no socket
\* is open yet), _sendIP and _sendPort are drawn from the peers
UninitHandle == {NO_SOCKET_AVAIL, 0}

UninitPeer == Peers

RxIndex == 0 .. (UDP_RX_PACKET_MAX_SIZE - 1)

TxIndex == 0 .. (UDP_TX_PACKET_MAX_SIZE - 1)

RECURSIVE SeqsUpTo(_, _)
\* all sequences over S of length at most n
SeqsUpTo(S, n) ==
    IF n = 0 THEN {<<>>}
    ELSE LET shorter == SeqsUpTo(S, n - 1)
         IN  shorter \cup {Append(s, b) : s \in {t \in shorter : Len(t) = n - 1}, b \in S}

Min(a, b) == IF a < b THEN a ELSE b

Max(a, b) == IF a > b THEN a ELSE b

(* ------------------------------- state --------------------------------- *)

VARIABLES
    _sock,            \* slot index, or NO_SOCKET_AVAIL
    _socketHandle,    \* transport handle (not set by the constructor)
    rx_buf,           \* [RxIndex -> Byte]
    tx_buf,           \* [TxIndex -> Byte]
    rx_currentIndex,
    rx_fillLevel,
    tx_fillLevel,
    _remoteIP,
    _remotePort,
    _sendIP,          \* not set by the constructor
    _sendPort,        \* not set by the constructor
    _server_port,     \* WiFiClass::_server_port, [Slots -> port or 0]
    openSockets,      \* the transport: handles currently open
    \* what the last call did and returned
    op,               \* name of the last method called
    ret,              \* its return value
    len,              \* the len of read(buffer, len) or the size of write(buffer, size), else 0
    stored,           \* bytes read(buffer, len) stored at buffer[0], buffer[1], ...
    calls,            \* transport calls of the last method: <<fn, handle, was open, result>>
    sent,             \* the sl_SendTo of the last method: << >> or <<[data, sin_addr, sin_port]>>
    slotWr,           \* index of _server_port written by the last method, or -1
    rxIdx,            \* largest rx_buf index accessed by the last method, or -1
    \* history
    stopped,          \* stop() was called and no begin() has succeeded since
    pkt,              \* datagram of the last successful receive, while only read() followed
    drain,            \* number of read() calls since that receive, or -1
    pending,          \* "open": beginPacket succeeded and only writes followed; "sent": then endPacket
    acc,              \* concatenation of the arguments of those writes
    dest,             \* <<ip, port>> given to that beginPacket
    leakedHandles,    \* handles the object held when a later begin() succeeded without a stop()
    leakedSlots       \* the slots it held then

objVars == <<_sock, _socketHandle, rx_buf, tx_buf, rx_currentIndex, rx_fillLevel,
             tx_fillLevel, _remoteIP, _remotePort, _sendIP, _sendPort>>

rxVars == <<rx_buf, rx_currentIndex, rx_fillLevel>>

txVars == <<tx_buf, tx_fillLevel>>

envVars == <<_server_port, openSockets>>

obsVars == <<op, ret, len, stored, calls, sent, slotWr, rxIdx>>

leakVars == <<leakedHandles, leakedSlots>>

histVars == <<stopped, pkt, drain, pending, acc, dest, leakVars>>

vars == <<objVars, envVars, obsVars, histVars>>

(* ------------------------- byte order helpers -------------------------- *)

\* sl_Htons on the little-endian target: swaps the two bytes of a 16-bit value
sl_Htons(x) == (x % 256) * 256 + ((x \div 256) % 256)

\* sl_Htonl on the little-endian target: reverses the four bytes of a 32-bit value
sl_Htonl(x) ==
    (x % 256) * 16777216 + ((x \div 256) % 256) * 65536
      + ((x \div 65536) % 256) * 256 + ((x \div 16777216) % 256)

(* --------------------------- the transport ----------------------------- *)

\* what sl_Socket can return: a handle that is not open, or an error
sl_SocketResults == (Handles \ openSockets) \cup {-1}

\* the set of open handles after sl_Close(h)
sl_Close(open, h) == open \ {h}

\* a transport call as logged in calls: function, handle, whether the handle
\* was open when called, result
Call(fn, h, res) == <<fn, h, h \in openSockets, res>>

\* the sockaddr a receive can leave in the local variable address: a peer's
\* address in network order, or (on a failed receive) whatever the
\* uninitialised variable held
WireAddr(p) == [sin_addr |-> sl_Htonl(p[1]), sin_port |-> sl_Htons(p[2])]

GarbageAddr == {WireAddr(p) : p \in Peers \cup {NoPeer}}

(* ------------------------- the slot table ------------------------------ *)

\* WiFiClass::getSocket(): the first slot whose port entry is 0, or NO_SOCKET_AVAIL
getSocket ==
    IF \E i \in Slots : _server_port[i] = 0
    THEN CHOOSE i \in Slots : _server_port[i] = 0 /\ \A j \in Slots : _server_port[j] = 0 => i <= j
    ELSE NO_SOCKET_AVAIL

(* ------------------------------ accessors ------------------------------ *)

\* WiFiUDP::available()
available ==
    LET bytesLeft == rx_fillLevel - rx_currentIndex
    IN  IF bytesLeft < 0 THEN 0 ELSE bytesLeft

\* WiFiUDP::remoteIP()
remoteIP == _remoteIP

\* WiFiUDP::remotePort()
remotePort == _remotePort

\* bound as beginPacket sees it
IsBound == _sock # NO_SOCKET_AVAIL

(* -------------------------- observation helper ------------------------- *)

Obs(o, r, l, st, cs, sn, sw, ri) ==
    /\ op' = o
    /\ ret' = r
    /\ len' = l
    /\ stored' = st
    /\ calls' = cs
    /\ sent' = sn
    /\ slotWr' = sw
    /\ rxIdx' = ri

\* a method that is neither read(), a write nor endPacket ends both chains
BreakRx == pkt' = <<>> /\ drain' = -1

BreakTx == pending' = "none" /\ acc' = <<>> /\ dest' = NoPeer

(* ------------------------------- Init ---------------------------------- *)

\* WiFiUDP::WiFiUDP(): _socketHandle, _sendIP and _sendPort are left
\* uninitialised, so they start with any value
Init ==
    /\ _sock = NO_SOCKET_AVAIL
    /\ _socketHandle \in UninitHandle
    /\ rx_buf = [i \in RxIndex |-> 0]
    /\ tx_buf = [i \in TxIndex |-> 0]
    /\ rx_currentIndex = 0
    /\ rx_fillLevel = 0
    /\ tx_fillLevel = 0
    /\ _remotePort = 0
    /\ _remoteIP = 0
    /\ \E p \in UninitPeer : _sendIP = p[1] /\ _sendPort = p[2]
    /\ _server_port = [i \in Slots |-> 0]
    /\ openSockets = {}
    /\ op = "WiFiUDP"
    /\ ret = 0
    /\ len = 0
    /\ stored = <<>>
    /\ calls = <<>>
    /\ sent = <<>>
    /\ slotWr = -1
    /\ rxIdx = -1
    /\ stopped = FALSE
    /\ pkt = <<>>
    /\ drain = -1
    /\ pending = "none"
    /\ acc = <<>>
    /\ dest = NoPeer
    /\ leakedHandles = {}
    /\ leakedSlots = {}

(* ----------------------------- lifecycle ------------------------------ *)

\* variant of BindFailed: the failed bind returns without sl_Close
BindFailedLeak(open, h) == open \cup {h}

\* begin, lines 75-78: the open handles after a failed bind of handle h
BindFailed(open, h) == sl_Close(open \cup {h}, h)

\* variant of BeginOpen: the handle the object held is closed first
BeginOpenCloseOld(open, old, h) == (open \ {old}) \cup {h}

\* begin, lines 61 and 83: the open handles after a successful begin of an
\* object whose _socketHandle was old; old is overwritten, not closed
BeginOpen(open, old, h) == open \cup {h}

\* variant of RecordPort: the port is not recorded
RecordPortNone(table, s, port) == table

\* begin, line 86: the slot table after a successful begin
RecordPort(table, s, port) == [table EXCEPT ![s] = port]

\* WiFiUDP::begin(port)
begin ==
    \E port \in Ports :
      LET s == getSocket IN
      /\ BreakRx /\ BreakTx
      /\ UNCHANGED <<rx_buf, tx_buf, rx_currentIndex, rx_fillLevel, tx_fillLevel,
                     _remoteIP, _remotePort, _sendIP, _sendPort>>
      /\ IF s = NO_SOCKET_AVAIL
         THEN /\ Obs("begin", 0, 0, <<>>, <<>>, <<>>, -1, -1)
              /\ UNCHANGED <<_sock, _socketHandle, envVars, stopped, leakVars>>
         ELSE \E h \in sl_SocketResults :
                IF h < 0
                THEN /\ Obs("begin", 0, 0, <<>>, <<Call("sl_Socket", h, h)>>, <<>>, -1, -1)
                     /\ UNCHANGED <<_sock, _socketHandle, envVars, stopped, leakVars>>
                ELSE \E iRet \in {0, -1} :
                       IF iRet < 0
                       THEN /\ openSockets' = BindFailed(openSockets, h)
                            /\ Obs("begin", 0, 0, <<>>,
                                   <<Call("sl_Socket", h, h), <<"sl_Bind", h, TRUE, iRet>>,
                                     <<"sl_Close", h, TRUE, 0>>>>, <<>>, -1, -1)
                            /\ UNCHANGED <<_sock, _socketHandle, _server_port, stopped, leakVars>>
                       ELSE /\ openSockets' = BeginOpen(openSockets, _socketHandle, h)
                            /\ leakedHandles' = IF IsBound THEN leakedHandles \cup {_socketHandle}
                                                ELSE leakedHandles
                            /\ leakedSlots' = IF IsBound THEN leakedSlots \cup {_sock}
                                              ELSE leakedSlots
                            /\ _socketHandle' = h
                            /\ _sock' = s
                            /\ _server_port' = RecordPort(_server_port, s, port)
                            /\ stopped' = FALSE
                            /\ Obs("begin", 1, 0, <<>>,
                                   <<Call("sl_Socket", h, h), <<"sl_Bind", h, TRUE, iRet>>>>,
                                   <<>>, s, -1)

\* variant of FlushRx: the read position is not reset
FlushRxKeepCursor == <<[i \in RxIndex |-> 0], rx_currentIndex, 0>>

\* flush, lines 320-322: the receive state after flush()
FlushRx == <<[i \in RxIndex |-> 0], 0, 0>>

\* WiFiUDP::flush()
flush ==
    /\ rx_buf' = FlushRx[1]
    /\ rx_currentIndex' = FlushRx[2]
    /\ rx_fillLevel' = FlushRx[3]
    /\ BreakRx /\ BreakTx
    /\ Obs("flush", 0, 0, <<>>, <<>>, <<>>, -1, -1)
    /\ UNCHANGED <<_sock, _socketHandle, txVars, _remoteIP, _remotePort, _sendIP, _sendPort,
                   envVars, stopped, leakVars>>

\* WiFiUDP::stop(): flush(), sl_Close(_socketHandle), _server_port[_sock] = 0,
\* _sock = NO_SOCKET_AVAIL.  With _sock = NO_SOCKET_AVAIL the store goes to
\* _server_port[255], outside the table: the table itself keeps its entries
\* and slotWr records the index.
stop ==
    /\ rx_buf' = FlushRx[1]
    /\ rx_currentIndex' = FlushRx[2]
    /\ rx_fillLevel' = FlushRx[3]
    /\ openSockets' = sl_Close(openSockets, _socketHandle)
    /\ _server_port' = IF _sock \in Slots THEN [_server_port EXCEPT ![_sock] = 0]
                       ELSE _server_port
    /\ _sock' = NO_SOCKET_AVAIL
    /\ stopped' = TRUE
    /\ UNCHANGED leakVars
    /\ BreakRx /\ BreakTx
    /\ Obs("stop", 0, 0, <<>>,
           <<Call("sl_Close", _socketHandle, IF _socketHandle \in openSockets THEN 0 ELSE -1)>>,
           <<>>, _sock, -1)
    /\ UNCHANGED <<_socketHandle, txVars, _remoteIP, _remotePort, _sendIP, _sendPort>>

(* ------------------------------ transmit ------------------------------- *)

\* beginPacket, line 154: the receive cursor after a successful beginPacket
BeginPacketCursor(cur) == 0

\* the body of beginPacket(IPAddress, uint16_t), under the method name o
BeginPacketBody(o, ip, port) ==
    IF _sock = NO_SOCKET_AVAIL
    THEN /\ Obs(o, 0, 0, <<>>, <<>>, <<>>, -1, -1)
         /\ BreakTx
         /\ UNCHANGED <<_sendIP, _sendPort, tx_buf, rx_currentIndex, tx_fillLevel>>
    ELSE /\ _sendIP' = ip
         /\ _sendPort' = port
         /\ tx_buf' = [i \in TxIndex |-> 0]
         /\ rx_currentIndex' = BeginPacketCursor(rx_currentIndex)
         /\ tx_fillLevel' = 0
         /\ pending' = "open"
         /\ acc' = <<>>
         /\ dest' = <<ip, port>>
         /\ Obs(o, 1, 0, <<>>, <<>>, <<>>, -1, -1)

\* WiFiUDP::beginPacket(IPAddress ip, uint16_t port)
beginPacket ==
    \E p \in Peers :
      /\ BeginPacketBody("beginPacket", p[1], p[2])
      /\ BreakRx
      /\ UNCHANGED <<_sock, _socketHandle, rx_buf, rx_fillLevel, _remoteIP, _remotePort,
                     envVars, stopped, leakVars>>

\* WiFiUDP::beginPacket(const char *host, uint16_t port): WiFi.hostByName
\* resolves the host to a peer's address or fails
beginPacketHost ==
    \E p \in Peers, success \in BOOLEAN :
      /\ IF success
         THEN BeginPacketBody("beginPacketHost", p[1], p[2])
         ELSE /\ Obs("beginPacketHost", 0, 0, <<>>, <<>>, <<>>, -1, -1)
              /\ BreakTx
              /\ UNCHANGED <<_sendIP, _sendPort, tx_buf, rx_currentIndex, tx_fillLevel>>
      /\ BreakRx
      /\ UNCHANGED <<_sock, _socketHandle, rx_buf, rx_fillLevel, _remoteIP, _remotePort,
                     envVars, stopped, leakVars>>

\* variant of WriteSize: the size is not cut to the room left in tx_buf
WriteSizeNoClamp(fill, size) == size

\* write, lines 201-203: the number of bytes write accepts
WriteSize(fill, size) ==
    IF fill + size > UDP_TX_PACKET_MAX_SIZE THEN UDP_TX_PACKET_MAX_SIZE - fill ELSE size

\* variant of WriteCopy: memcpy(tx_buf, data, size), at the start of the buffer
WriteCopyAtStart(buf, fill, data, size) ==
    [i \in TxIndex |-> IF i < size THEN data[i + 1] ELSE buf[i]]

\* write, line 209: memcpy(&tx_buf[fill], data, size)
WriteCopy(buf, fill, data, size) ==
    [i \in TxIndex |-> IF fill <= i /\ i < fill + size THEN data[i - fill + 1] ELSE buf[i]]

\* the body of write(const uint8_t*, size_t), under the method name o
WriteBody(o, data) ==
    LET size == WriteSize(tx_fillLevel, Len(data)) IN
    /\ tx_buf' = WriteCopy(tx_buf, tx_fillLevel, data, size)
    /\ tx_fillLevel' = tx_fillLevel + size
    /\ IF pending = "open" /\ Len(acc) + Len(data) <= UDP_TX_PACKET_MAX_SIZE
       THEN pending' = "open" /\ acc' = acc \o data /\ dest' = dest
       ELSE BreakTx
    /\ Obs(o, size, Len(data), <<>>, <<>>, <<>>, -1, -1)

\* WiFiUDP::write(const uint8_t *buffer, size_t size)
write ==
    \E data \in SeqsUpTo(Byte, MaxWrite) :
      /\ WriteBody("write", data)
      /\ BreakRx
      /\ UNCHANGED <<_sock, _socketHandle, rxVars, _remoteIP, _remotePort, _sendIP, _sendPort,
                     envVars, stopped, leakVars>>

\* WiFiUDP::write(uint8_t byte): write(&byte, 1)
writeByte ==
    \E b \in Byte :
      /\ WriteBody("writeByte", <<b>>)
      /\ BreakRx
      /\ UNCHANGED <<_sock, _socketHandle, rxVars, _remoteIP, _remotePort, _sendIP, _sendPort,
                     envVars, stopped, leakVars>>

\* endPacket, line 174: the bytes handed to sl_SendTo
TxPayload == [i \in 1 .. tx_fillLevel |-> tx_buf[i - 1]]

\* variant of SendFailed: iRet <= 0, so that sending no bytes counts as a failure
SendFailedOnZero(iRet) == iRet <= 0

\* endPacket, line 175: the send failed
SendFailed(iRet) == iRet < 0

\* endPacket, lines 182-183: the transmit state after a send that did not fail
TxAfterSend == <<[i \in TxIndex |-> 0], 0>>

\* what sl_SendTo can return for n bytes on handle h: an error, or n
sl_SendToResults(h, n) == IF h \in openSockets THEN {-1, n} ELSE {-1}

\* WiFiUDP::endPacket()
endPacket ==
    \E iRet \in sl_SendToResults(_socketHandle, tx_fillLevel) :
      /\ IF SendFailed(iRet)
         THEN /\ UNCHANGED txVars
              /\ Obs("endPacket", 0, 0, <<>>, <<Call("sl_SendTo", _socketHandle, iRet)>>,
                     <<[data |-> TxPayload, sin_addr |-> sl_Htonl(_sendIP),
                        sin_port |-> sl_Htons(_sendPort)]>>, -1, -1)
         ELSE /\ tx_buf' = TxAfterSend[1]
              /\ tx_fillLevel' = TxAfterSend[2]
              /\ Obs("endPacket", 1, 0, <<>>, <<Call("sl_SendTo", _socketHandle, iRet)>>,
                     <<[data |-> TxPayload, sin_addr |-> sl_Htonl(_sendIP),
                        sin_port |-> sl_Htons(_sendPort)]>>, -1, -1)
      /\ IF pending = "open"
         THEN pending' = "sent" /\ UNCHANGED <<acc, dest>>
         ELSE BreakTx
      /\ BreakRx
      /\ UNCHANGED <<_sock, _socketHandle, rxVars, _remoteIP, _remotePort, _sendIP, _sendPort,
                     envVars, stopped, leakVars>>

(* ------------------------------- receive ------------------------------- *)

\* what sl_Select can return on handle h: an error, 0 on a timeout, or the
\* number of ready handles
sl_SelectResults(h) == IF h \in openSockets THEN {-1, 0, 1} ELSE {-1}

\* what sl_RecvFrom can return once the handle is ready: an error that leaves
\* the address as it was, or a datagram of at most UDP_RX_PACKET_MAX_SIZE bytes
\* with its sender's address
sl_RecvFromResults ==
    {[bytes |-> -1, data |-> <<>>, address |-> a] : a \in GarbageAddr}
      \cup {[bytes |-> Len(d), data |-> d, address |-> WireAddr(p)] :
              d \in SeqsUpTo(Byte, UDP_RX_PACKET_MAX_SIZE), p \in Peers}

\* variant of SelectGivesUp: iRet < 0, so that a timeout goes on to receive
SelectGivesUpOnError(iRet) == iRet < 0

\* parsePacket, line 243: the poll reported nothing to receive
SelectGivesUp(iRet) == iRet <= 0

\* variant of RecvCopy: the datagram is not stored into rx_buf
RecvCopyNone(buf, data) == buf

\* parsePacket, line 253: rx_buf after sl_RecvFrom stored data at its start
RecvCopy(buf, data) == [i \in RxIndex |-> IF i < Len(data) THEN data[i + 1] ELSE buf[i]]

\* variant of ParseResult: a successful receive keeps the read position
ParseResultKeepCursor(bytes, cur) ==
    IF bytes < 0 THEN <<cur, 0, 0>> ELSE <<cur, bytes, bytes>>

\* parsePacket, lines 267-274: <<rx_currentIndex, rx_fillLevel, return value>>
ParseResult(bytes, cur) ==
    IF bytes < 0 THEN <<cur, 0, 0>> ELSE <<0, bytes, bytes>>

\* WiFiUDP::parsePacket()
parsePacket ==
    /\ BreakTx
    /\ UNCHANGED <<_sock, _socketHandle, txVars, _sendIP, _sendPort, envVars, stopped, leakVars>>
    /\ IF _socketHandle = NO_SOCKET_AVAIL
       THEN /\ Obs("parsePacket", 0, 0, <<>>, <<>>, <<>>, -1, -1)
            /\ BreakRx
            /\ UNCHANGED <<rxVars, _remoteIP, _remotePort>>
       ELSE \E iRet \in sl_SelectResults(_socketHandle) :
              IF SelectGivesUp(iRet)
              THEN /\ Obs("parsePacket", 0, 0, <<>>,
                          <<Call("sl_Select", _socketHandle, iRet)>>, <<>>, -1, -1)
                   /\ BreakRx
                   /\ UNCHANGED <<rxVars, _remoteIP, _remotePort>>
              ELSE \E r \in sl_RecvFromResults :
                     LET res == ParseResult(r.bytes, rx_currentIndex) IN
                     /\ rx_buf' = RecvCopy(rx_buf, r.data)
                     /\ _remoteIP' = sl_Htonl(r.address.sin_addr)
                     /\ _remotePort' = sl_Htons(r.address.sin_port)
                     /\ rx_currentIndex' = res[1]
                     /\ rx_fillLevel' = res[2]
                     /\ IF r.bytes < 0 THEN BreakRx ELSE pkt' = r.data /\ drain' = 0
                     /\ Obs("parsePacket", res[3], 0, <<>>,
                            <<Call("sl_Select", _socketHandle, iRet),
                              Call("sl_RecvFrom", _socketHandle, r.bytes)>>, <<>>, -1, -1)

\* WiFiUDP::read()
read ==
    /\ IF rx_currentIndex >= rx_fillLevel
       THEN /\ Obs("read", 0, 0, <<>>, <<>>, <<>>, -1, -1)
            /\ UNCHANGED rx_currentIndex
       ELSE /\ Obs("read", rx_buf[rx_currentIndex], 0, <<>>, <<>>, <<>>, -1, rx_currentIndex)
            /\ rx_currentIndex' = rx_currentIndex + 1
    /\ IF drain >= 0 /\ drain < Len(pkt)
       THEN drain' = drain + 1 /\ pkt' = pkt
       ELSE BreakRx
    /\ BreakTx
    /\ UNCHANGED <<_sock, _socketHandle, rx_buf, rx_fillLevel, txVars, _remoteIP, _remotePort,
                   _sendIP, _sendPort, envVars, stopped, leakVars>>

\* read(buffer, len), line 298: the loop goes on
ReadLoopCond(bytesCopied, n, cur, fill) == (bytesCopied <= n) /\ (cur < fill)

RECURSIVE ReadLoop(_, _, _)
\* read(buffer, len), lines 298-302: <<bytes stored in buffer, rx_currentIndex>>
\* after the loop, from st already stored and the cursor at cur
ReadLoop(st, cur, n) ==
    IF ReadLoopCond(Len(st), n, cur, rx_fillLevel)
    THEN ReadLoop(Append(st, rx_buf[cur]), cur + 1, n)
    ELSE <<st, cur>>

\* WiFiUDP::read(unsigned char* buffer, size_t len)
readBuf ==
    \E n \in 0 .. MaxLen :
      LET res == ReadLoop(<<>>, rx_currentIndex, n) IN
      /\ rx_currentIndex' = res[2]
      /\ Obs("readBuf", Len(res[1]), n, res[1], <<>>, <<>>, -1,
             IF res[1] = <<>> THEN -1 ELSE res[2] - 1)
      /\ BreakRx /\ BreakTx
      /\ UNCHANGED <<_sock, _socketHandle, rx_buf, rx_fillLevel, txVars, _remoteIP,
                     _remotePort, _sendIP, _sendPort, envVars, stopped, leakVars>>

\* WiFiUDP::peek(): rx_buf[rx_currentIndex] with no check; past the end of
\* rx_buf the byte read is whatever lies there
peek ==
    /\ \E b \in (IF rx_currentIndex \in RxIndex THEN {rx_buf[rx_currentIndex]} ELSE Byte) :
         Obs("peek", b, 0, <<>>, <<>>, <<>>, -1, rx_currentIndex)
    /\ BreakRx /\ BreakTx
    /\ UNCHANGED <<objVars, envVars, stopped, leakVars>>

(* --------------------------- specifications ---------------------------- *)

Next ==
    \/ begin
    \/ stop
    \/ flush
    \/ beginPacket
    \/ beginPacketHost
    \/ write
    \/ writeByte
    \/ endPacket
    \/ parsePacket
    \/ read
    \/ readBuf
    \/ peek

Spec == Init /\ [][Next]_vars

\* the receive side: every method but write and endPacket, so the transmit
\* buffer stays empty
NextRx ==
    \/ begin
    \/ stop
    \/ flush
    \/ beginPacket
    \/ beginPacketHost
    \/ parsePacket
    \/ read
    \/ readBuf
    \/ peek

SpecRx == Init /\ [][NextRx]_vars

\* the transmit side: every method but the ones that receive and read, so the
\* receive buffer stays empty
NextTx ==
    \/ begin
    \/ stop
    \/ flush
    \/ beginPacket
    \/ beginPacketHost
    \/ write
    \/ writeByte
    \/ endPacket

SpecTx == Init /\ [][NextTx]_vars

(* ============================== claims ================================= *)

\* the sl_Select result of the last method, when it polled
Polled == Len(calls) >= 1 /\ calls[1][1] = "sl_Select"

(* C1: read(buffer, n) stores at most n bytes into the caller's buffer, for
   every n >= 0: it never stores to buffer[i] with i >= n. *)
C1_ReadBufWithinLen == op = "readBuf" => Len(stored) <= len

(* C2: if available() is a before the call, read(buffer, n) returns
   min(n, a) and available() is a - min(n, a) afterwards. *)
C2_ReadBufReturnsMin ==
    [][op' = "readBuf" =>
         /\ ret' = Min(len', available)
         /\ available' = available - Min(len', available)]_vars

(* C3: in every state after a stop() with no later successful begin(), each
   of write, beginPacket and parsePacket returns 0. *)
C3_FailAfterStop ==
    (stopped /\ op \in {"write", "writeByte", "beginPacket", "parsePacket"}) => ret = 0

(* C4: beginPacket(ip, port) leaves rx_currentIndex, rx_fillLevel and rx_buf
   unchanged, so available() is the same before and after it. *)
C4_BeginPacketKeepsRx ==
    [][op' = "beginPacket" =>
         /\ UNCHANGED <<rx_currentIndex, rx_fillLevel, rx_buf>>
         /\ available' = available]_vars

(* C5: when the poll of parsePacket() times out (sl_Select returns 0),
   parsePacket() returns 0 and leaves rx_currentIndex, rx_fillLevel, rx_buf
   and the last sender's address and port as they were. *)
C5_TimeoutKeepsRx ==
    [][(op' = "parsePacket" /\ Polled' /\ calls'[1][4] = 0) =>
         /\ ret' = 0
         /\ UNCHANGED <<rx_currentIndex, rx_fillLevel, rx_buf, _remoteIP, _remotePort>>]_vars

\* a poll timed out while a received packet was partly read
C5_Witness ==
    /\ op = "parsePacket" /\ Polled /\ calls[1][4] = 0
    /\ ret = 0
    /\ rx_currentIndex > 0 /\ rx_currentIndex < rx_fillLevel
    /\ _remoteIP # 0

(* C6: right after a parsePacket() that received a datagram of k bytes,
   parsePacket() returned k and available() is k; after n read() calls and
   nothing else, available() is k - n, so it is 0 after k of them. *)
C6_AvailableAfterParse ==
    drain >= 0 =>
      /\ drain = 0 => (op = "parsePacket" /\ ret = Len(pkt))
      /\ available = Len(pkt) - drain
      /\ drain = Len(pkt) => available = 0

\* a datagram that fills rx_buf was received and read to its end
C6_Witness ==
    /\ drain = Len(pkt) /\ Len(pkt) = UDP_RX_PACKET_MAX_SIZE
    /\ op = "read"

(* C7: beginPacket(ip, port), then writes whose arguments concatenate to s
   (of at most UDP_TX_PACKET_MAX_SIZE bytes, which covers every s shorter
   than the buffer), then an endPacket() that returns 1: sl_SendTo got
   exactly the bytes of s, in order, for (ip, port) in network byte order,
   and tx_fillLevel is 0. *)
C7_SendsWhatWasWritten ==
    (op = "endPacket" /\ pending = "sent" /\ ret = 1) =>
      /\ Len(sent) = 1
      /\ sent[1].data = acc
      /\ Len(sent[1].data) = Len(acc)
      /\ sent[1].sin_addr = WireAddr(dest).sin_addr
      /\ sent[1].sin_port = WireAddr(dest).sin_port
      /\ tx_fillLevel = 0

\* two different bytes were written and sent
C7_Witness ==
    /\ op = "endPacket" /\ pending = "sent" /\ ret = 1
    /\ Len(acc) >= 2 /\ acc[1] # acc[2]
    /\ dest \in Peers

(* C8 as stated: after a begin(port) that returns 0 the object is not marked
   bound, no socket it created is open and no slot is taken. *)
C8_FailedBeginUnbound ==
    [][(op' = "begin" /\ ret' = 0) =>
         /\ _sock' = NO_SOCKET_AVAIL
         /\ openSockets' = openSockets
         /\ _server_port' = _server_port]_vars

(* C8 as amended: a begin(port) that returns 0 leaves the object as bound or
   unbound as it was (an unbound object stays unbound), leaves open exactly
   the sockets that were open before it, and leaves the slot table as it
   was. *)
C8_FailedBeginChangesNothing ==
    [][(op' = "begin" /\ ret' = 0) =>
         /\ _sock' = _sock
         /\ _socketHandle' = _socketHandle
         /\ openSockets' = openSockets
         /\ _server_port' = _server_port]_vars

\* a begin on an unbound object failed at the bind, after sl_Socket succeeded
C8_Witness ==
    /\ op = "begin" /\ ret = 0
    /\ Len(calls) = 3 /\ calls[2][1] = "sl_Bind" /\ calls[2][4] < 0
    /\ _sock = NO_SOCKET_AVAIL

(* C9: stop() on an unbound object closes no handle that is not open, stores
   to no _server_port entry outside the table, and leaves the object unbound
   with rx_currentIndex = rx_fillLevel = 0. *)
C9_StopSafeWhenUnbound ==
    [][(_sock = NO_SOCKET_AVAIL /\ op' = "stop") =>
         /\ \A i \in 1 .. Len(calls') : calls'[i][1] = "sl_Close" => calls'[i][3]
         /\ slotWr' \in Slots \cup {-1}
         /\ _sock' = NO_SOCKET_AVAIL
         /\ rx_currentIndex' = 0 /\ rx_fillLevel' = 0]_vars

(* C10: endPacket() returns 0 exactly when sl_SendTo fails and 1 otherwise;
   a failed endPacket() leaves tx_fillLevel and tx_buf unchanged, a
   successful one sets tx_fillLevel to 0, and an endPacket() right after a
   failed one hands sl_SendTo the same bytes and address. *)
C10_EndPacketResult ==
    [][op' = "endPacket" =>
         /\ Len(calls') = 1 /\ calls'[1][1] = "sl_SendTo"
         /\ ret' \in {0, 1}
         /\ ret' = 0 <=> calls'[1][4] < 0
         /\ ret' = 0 => UNCHANGED <<tx_fillLevel, tx_buf>>
         /\ ret' = 1 => tx_fillLevel' = 0
         /\ (op = "endPacket" /\ ret = 0) => sent' = sent]_vars

\* an endPacket() failed with a full transmit buffer
C10_Witness ==
    /\ op = "endPacket" /\ ret = 0
    /\ tx_fillLevel = UDP_TX_PACKET_MAX_SIZE
    /\ \E i \in TxIndex : tx_buf[i] # 0

\* the last method received a datagram: its sl_RecvFrom did not fail
Received ==
    /\ op = "parsePacket"
    /\ Len(calls) = 2 /\ calls[2][1] = "sl_RecvFrom" /\ calls[2][4] >= 0

(* C11: what remoteIP() and remotePort() return changes only in a
   parsePacket() whose receive succeeds: it is the same after every other
   method, after a parsePacket() that times out and after a parsePacket()
   whose receive returns an error. *)
C11_SenderOnlyOnReceive ==
    [][(remoteIP' # remoteIP \/ remotePort' # remotePort) => Received']_vars

(* C12: 0 <= tx_fillLevel <= UDP_TX_PACKET_MAX_SIZE in every state, and a
   write of n bytes accepts and returns min(n, room left), stores exactly
   those bytes from position tx_fillLevel on, keeps the rest of tx_buf and
   adds that count to tx_fillLevel. *)
C12_WriteAccepts ==
    /\ [](tx_fillLevel \in 0 .. UDP_TX_PACKET_MAX_SIZE)
    /\ [][op' \in {"write", "writeByte"} =>
            LET k == Min(len', UDP_TX_PACKET_MAX_SIZE - tx_fillLevel) IN
            /\ ret' = k
            /\ tx_fillLevel' = tx_fillLevel + k
            /\ \A i \in TxIndex :
                 (i < tx_fillLevel \/ i >= tx_fillLevel + k) => tx_buf'[i] = tx_buf[i]
            /\ \A data \in SeqsUpTo(Byte, MaxWrite) :
                 WriteBody(op', data) =>
                   /\ Len(data) = len'
                   /\ \A j \in 1 .. k : tx_buf'[tx_fillLevel + j - 1] = data[j]]_vars

\* a write of more bytes than fit was cut short and filled tx_buf
C12_Witness ==
    /\ op = "write"
    /\ ret > 0 /\ ret < len
    /\ tx_fillLevel = UDP_TX_PACKET_MAX_SIZE
    /\ \E i \in TxIndex : tx_buf[i] # 0

(* C13: after flush() available() is 0 and rx_currentIndex = rx_fillLevel
   = 0, whatever the state before; flush() changes neither tx_fillLevel (nor
   tx_buf) nor whether the object is bound. *)
C13_FlushEmptiesRx ==
    [][op' = "flush" =>
         /\ rx_currentIndex' = 0
         /\ rx_fillLevel' = 0
         /\ available' = 0
         /\ UNCHANGED <<tx_fillLevel, tx_buf, _sock, _socketHandle, _server_port, openSockets>>]_vars

\* flush() on a bound object that had received a datagram and holds bytes to send
C13_Witness ==
    /\ op = "flush"
    /\ IsBound
    /\ _remoteIP # 0
    /\ tx_fillLevel > 0
    /\ available = 0

(* C14: 0 <= rx_currentIndex <= rx_fillLevel <= UDP_RX_PACKET_MAX_SIZE in
   every state, also after a parsePacket() whose receive fails after the
   previous packet was partly read. *)
C14_RxCursorWithinFill ==
    /\ 0 <= rx_currentIndex
    /\ rx_currentIndex <= rx_fillLevel
    /\ rx_fillLevel <= UDP_RX_PACKET_MAX_SIZE

(* C15: no transport I/O while the object is unbound: a parsePacket() on an
   unbound object (never begun, or after stop()) returns 0 without calling
   sl_Select or sl_RecvFrom, and endPacket() never calls sl_SendTo on a
   handle that is not open. *)
C15_NoTransportWhenUnbound ==
    /\ (op = "parsePacket" /\ ~IsBound) => (ret = 0 /\ calls = <<>>)
    /\ op = "endPacket" =>
         \A i \in 1 .. Len(calls) : calls[i][1] = "sl_SendTo" => calls[i][3]

(* C16: rx_buf holds one packet at a time: after a parsePacket() that
   received datagram d of k bytes, rx_buf starts with d and rx_fillLevel is
   k whatever was left of the previous packet, the n-th of the next k
   read() calls returns d[n], and a read() only ever returns a byte below
   rx_fillLevel, that is of the current packet, or 0 without touching
   rx_buf; the bytes below rx_fillLevel are put there only by a successful
   receive. *)
C16_ReadsCurrentPacket ==
    /\ [](/\ drain >= 0 =>
              /\ rx_fillLevel = Len(pkt)
              /\ \A i \in 1 .. Len(pkt) : rx_buf[i - 1] = pkt[i]
          /\ (drain >= 1 /\ op = "read") => (ret = pkt[drain] /\ rxIdx = drain - 1)
          /\ op = "read" =>
               \/ rxIdx = -1 /\ ret = 0
               \/ rxIdx \in 0 .. (rx_fillLevel - 1) /\ ret = rx_buf[rxIdx])
    /\ [][(rx_fillLevel' > 0 /\ (rx_buf' # rx_buf \/ rx_fillLevel' # rx_fillLevel))
            => (Received' /\ drain' = 0)]_vars

\* the last byte of a received datagram of two different bytes was read
C16_Witness ==
    /\ op = "read"
    /\ drain = Len(pkt) /\ drain >= 2
    /\ pkt[1] # pkt[2]
    /\ ret = pkt[drain]

(* C17: a second successful begin() without a stop() leaks the first
   resource: the socket the object held stays open and no later method
   closes it (the object's handle is another one, so a later stop() closes
   that one), and the slot it held keeps its port entry. *)
C17_SecondBeginLeaks ==
    /\ leakedHandles \subseteq openSockets
    /\ \A s \in leakedSlots : s \in Slots /\ _server_port[s] # 0
    /\ IsBound => (_socketHandle \notin leakedHandles /\ _sock \notin leakedSlots)
    /\ op = "stop" => \A i \in 1 .. Len(calls) : calls[i][2] \notin leakedHandles

\* after two begins a stop() closed the second socket and the first is still open
C17_Witness ==
    /\ op = "stop" /\ slotWr \in Slots
    /\ leakedHandles # {} /\ leakedHandles \subseteq openSockets
    /\ leakedSlots # {}
    /\ _socketHandle \notin openSockets

\* a begin() from this state can succeed: a slot is free and the transport
\* has a handle to give
BeginCanSucceed ==
    /\ getSocket \in Slots
    /\ \E h \in sl_SocketResults : h >= 0

(* C18: a successful begin(port) sets the entry of the slot it acquired to
   port, changes no other entry and marks the object bound; a failed begin()
   changes no entry; stop() on a bound object closes the object's socket,
   which was open, sets the entry of the object's slot to 0, changes no other
   entry and marks the object unbound; and in the state after such a stop() a
   begin() on the same object can succeed. *)
C18_SlotBookkeeping ==
    /\ [][(op' = "begin" /\ ret' = 1) =>
            /\ getSocket \in Slots
            /\ _sock' = getSocket
            /\ _server_port'[_sock'] \in Ports
            /\ calls'[2][1] = "sl_Bind" /\ calls'[2][4] >= 0
            /\ \A i \in Slots : i # _sock' => _server_port'[i] = _server_port[i]
            /\ _sock' # NO_SOCKET_AVAIL]_vars
    /\ [][(op' = "begin" /\ ret' = 0) => _server_port' = _server_port]_vars
    /\ [][(op' = "stop" /\ IsBound) =>
            /\ _sock \in Slots
            /\ _socketHandle \in openSockets
            /\ openSockets' = openSockets \ {_socketHandle}
            /\ _server_port'[_sock] = 0
            /\ \A i \in Slots : i # _sock => _server_port'[i] = _server_port[i]
            /\ _sock' = NO_SOCKET_AVAIL]_vars
    /\ []((op = "stop" /\ slotWr \in Slots) => BeginCanSucceed)
    /\ [][(op = "stop" /\ slotWr \in Slots /\ op' = "begin" /\ ret' = 1) =>
            /\ _sock' = slotWr
            /\ _server_port'[slotWr] \in Ports]_vars

\* a bound object was stopped while another slot was taken: its slot is free
\* again, its socket is closed and a begin() can succeed
C18_Witness ==
    /\ op = "stop" /\ slotWr \in Slots
    /\ _server_port[slotWr] = 0
    /\ \E i \in Slots : _server_port[i] \in Ports
    /\ _sock = NO_SOCKET_AVAIL
    /\ calls = <<<<"sl_Close", _socketHandle, TRUE, 0>>>>
    /\ BeginCanSucceed

(* C19: every access to rx_buf by read(), read(buffer, len) and peek() uses
   an index below UDP_RX_PACKET_MAX_SIZE, also a peek() after a datagram of
   UDP_RX_PACKET_MAX_SIZE bytes has been read to its end, and peek() leaves
   rx_currentIndex as it was. *)
C19_RxAccessInBounds ==
    /\ [](op \in {"read", "readBuf", "peek"} => rxIdx \in RxIndex \cup {-1})
    /\ [](op = "peek" => rxIdx \in RxIndex)
    /\ [][op' = "peek" => rx_currentIndex' = rx_currentIndex]_vars

====
